---- MODULE Spec2Model ----
(***************************************************************************)
(* Model of the snn_neurons adapters (LIFLayer, TorchLIFNeuronGroup) and   *)
(* of the LIFNeuronGroup they drive.                                       *)
(*                                                                         *)
(* Real-valued quantities (potentials, thresholds, currents, eta,          *)
(* noise_std) are fixed-point integers in tenths: 10 stands for 1.0.       *)
(* tau, dt, tau_adapt, alpha and base_alpha are plain integers.            *)
(* Tensors are records [is_tensor, shape, data] with data a nested         *)
(* sequence, so shapes are part of the value.                              *)
(***************************************************************************)
EXTENDS Integers, Sequences, FiniteSets, TLC

VARIABLES
    grp,                 \* grp[1]: LIFLayer.lif_group, grp[2]: TorchLIFNeuronGroup.lif_group
    pc,                  \* position of the running adapter call ("idle" between calls, "done" when one has just ended)
    input_data,          \* input argument of the running / latest top-level call
    external_modulation, \* modulation argument of the running / latest top-level call
    t,                   \* loop variable of the running forward
    output_spikes,       \* list collected by the running forward
    ret,                 \* what the latest top-level call returned or raised
    calls,               \* the group calls made by the running / latest top-level call
    entry,               \* the called group's state when that call began
    last,                \* the latest group call of that call, with the state around it
    ncalls,              \* number of top-level calls made so far
    twin                 \* per instance, the outputs and states of the steps of a twin run

vars == <<grp, pc, input_data, external_modulation, t, output_spikes, ret, calls,
          entry, last, ncalls, twin>>

(* ------------------------------ bounds -------------------------------- *)

MaxT == 2        \* longest time dimension of an enumerated 3-D input
MaxCalls == 2    \* top-level calls (forward, step, reset_state) per behaviour

Insts == {1, 2}
InVals == {0, 30}       \* input current per element: 0.0 or 3.0

(* ------------------------------ tensors ------------------------------- *)

Tensor(shape, data) == [is_tensor |-> TRUE, shape |-> shape, data |-> data]

NoTensor == [is_tensor |-> FALSE, shape |-> <<>>, data |-> <<>>]

\* input_data[t] for a Python index t (0-based)
Sub(x, i) == Tensor(Tail(x.shape), x.data[i + 1])

\* torch.stack(list, dim=0) of equally shaped tensors; raises on an empty list
CanStack(list) == Len(list) > 0

Stack(list) ==
    Tensor(<<Len(list)>> \o list[1].shape, [i \in 1..Len(list) |-> list[i].data])

\* the (B, N) value grids the model enumerates: every element the same value, or
\* one value at element (1, 1) and the least value everywhere else
Least(vals) == CHOOSE v \in vals : \A w \in vals : v <= w

Grids(B, N, vals) ==
    {[b \in 1..B |-> [n \in 1..N |-> v]] : v \in vals}
      \cup {[b \in 1..B |-> [n \in 1..N |-> IF b = 1 /\ n = 1 THEN v ELSE Least(vals)]] :
              v \in vals}

Frames(B, N, vals) == {Tensor(<<B, N>>, d) : d \in Grids(B, N, vals)}

Sequences3(T, B, N, vals) ==
    {Tensor(<<T, B, N>>, d) : d \in [1..T -> Grids(B, N, vals)]}

Rows(N, vals) == {Tensor(<<N>>, d) : d \in [1..N -> vals]}

(* --------------------------- configuration ---------------------------- *)

\* LIFLayer.__init__ keyword defaults, in tenths where real-valued
Defaults ==
    [num_neurons |-> 1, V_th |-> 10, V_reset |-> 0, tau |-> 20, dt |-> 1, eta |-> 1,
     use_adaptive_threshold |-> TRUE, noise_std |-> 1, stochastic |-> TRUE,
     min_threshold |-> 5, max_threshold |-> 20, batch_size |-> 1,
     surrogate_gradient_function |-> "heaviside", alpha |-> 1,
     allow_dynamic_spike_probability |-> FALSE, base_alpha |-> 2, tau_adapt |-> 20,
     seed |-> 0]

\* the constructor arguments the model enumerates
CfgStochastic == [Defaults EXCEPT !.tau = 2]
CfgSurrogate ==
    [Defaults EXCEPT !.tau = 2, !.stochastic = FALSE, !.noise_std = 0, !.num_neurons = 2]
CfgDeterministic ==
    [Defaults EXCEPT !.tau = 2, !.stochastic = FALSE, !.noise_std = 0,
                     !.surrogate_gradient_function = "none", !.V_reset = 2]
CfgStatic ==
    [Defaults EXCEPT !.tau = 2, !.stochastic = FALSE, !.noise_std = 0,
                     !.use_adaptive_threshold = FALSE, !.batch_size = 2]
CfgDynamic ==
    [Defaults EXCEPT !.tau = 2, !.noise_std = 0, !.allow_dynamic_spike_probability = TRUE,
                     !.seed = 7]
CfgHighVth ==
    [Defaults EXCEPT !.tau = 2, !.stochastic = FALSE, !.noise_std = 0, !.V_th = 30]
CfgFastDecay ==
    [Defaults EXCEPT !.tau = 6, !.dt = 3, !.tau_adapt = 1, !.stochastic = FALSE,
                     !.noise_std = 0]

Configs == {CfgStochastic, CfgSurrogate, CfgDeterministic, CfgStatic, CfgDynamic,
            CfgHighVth, CfgFastDecay}

\* ConfigurationError: unknown surrogate kind, inverted bounds, non-positive tau / dt
ConfigValid(c) ==
    /\ c.surrogate_gradient_function \in {"heaviside", "none"}
    /\ c.min_threshold <= c.max_threshold
    /\ c.tau > 0
    /\ c.dt > 0

(* ------------------------- the neuron group --------------------------- *)

Full(B, N, v) == [b \in 1..B |-> [n \in 1..N |-> v]]

\* NeuronGroupState allocated at construction: all fields zero / initial threshold
NewGroup(c) ==
    [cfg |-> c,
     V |-> Full(c.batch_size, c.num_neurons, 0),
     threshold |-> Full(c.batch_size, c.num_neurons, c.V_th),
     adaptation_trace |-> Full(c.batch_size, c.num_neurons, 0),
     rng |-> c.seed]

\* reset_state(): V and adaptation_trace back to their initial values
ResetNoTrace(g) ==
    [g EXCEPT !.V = Full(g.cfg.batch_size, g.cfg.num_neurons, 0)]

ResetState(g) ==
    [g EXCEPT !.V = Full(g.cfg.batch_size, g.cfg.num_neurons, 0),
              !.adaptation_trace = Full(g.cfg.batch_size, g.cfg.num_neurons, 0)]

\* the group's own random stream: a linear congruential generator
RngNext(x) == (5 * x + 3) % 16

RECURSIVE RngAt(_, _)
RngAt(x, k) == IF k = 0 THEN x ELSE RngAt(RngNext(x), k - 1)

\* bounded sigmoid in tenths: strictly inside (0, 1)
Sigmoid(x) == IF x <= -20 THEN 1 ELSE IF x >= 20 THEN 9 ELSE 5 + (2 * x) \div 10

Clamp(x, lo, hi) == IF x < lo THEN lo ELSE IF x > hi THEN hi ELSE x

Mode(c) ==
    IF c.stochastic THEN "stochastic"
    ELSE IF c.surrogate_gradient_function = "none" THEN "deterministic"
    ELSE "surrogate"

ShapeOK(g, x) == x.is_tensor /\ x.shape = <<g.cfg.batch_size, g.cfg.num_neurons>>

\* an absent modulation, or one broadcastable to (batch_size, num_neurons)
ModOK(g, m) ==
    \/ ~m.is_tensor
    \/ m.shape = <<g.cfg.num_neurons>>
    \/ m.shape = <<g.cfg.batch_size, g.cfg.num_neurons>>

Flat(g, b, n) == (b - 1) * g.cfg.num_neurons + (n - 1)

Size(g) == g.cfg.batch_size * g.cfg.num_neurons

\* the generator a group draws from: its own; the alternative is one generator
\* shared by every instance
StreamShared(g) == grp[1].rng

Stream(g) == g.rng

\* NoiseSource: zero without sampling when noise_std = 0
NoiseDraws(g) == IF g.cfg.noise_std = 0 THEN 0 ELSE Size(g)

Noise(g, b, n) ==
    IF g.cfg.noise_std = 0 THEN 0
    ELSE g.cfg.noise_std * ((RngAt(Stream(g), Flat(g, b, n) + 1) % 3) - 1)

\* NeuromodulationTransform: sigmoid of the signal; the additive identity when absent
ModFactor(g, m, b, n) ==
    IF ~m.is_tensor THEN 0
    ELSE IF Len(m.shape) = 1 THEN Sigmoid(m.data[n])
    ELSE Sigmoid(m.data[b][n])

EffectiveCurrent(g, x, m, b, n) == x.data[b][n] + Noise(g, b, n) + ModFactor(g, m, b, n)

\* MembraneIntegrator: forward Euler
Integrate(g, V, I) == V + (g.cfg.dt * (-(V - g.cfg.V_reset) + I)) \div g.cfg.tau

Alpha(g, b, n) ==
    IF g.cfg.allow_dynamic_spike_probability
    THEN g.cfg.base_alpha + g.adaptation_trace[b][n]
    ELSE g.cfg.alpha

BernoulliDraws(g) == IF Mode(g.cfg) = "stochastic" THEN Size(g) ELSE 0

\* SpikeGenerator: 1 or 0 for element (b, n) with integrated potential Vn
Fire(g, Vn, b, n) ==
    IF Mode(g.cfg) = "stochastic"
    THEN IF (RngAt(Stream(g), NoiseDraws(g) + Flat(g, b, n) + 1) % 10)
               < Sigmoid(Alpha(g, b, n) * (Vn - g.threshold[b][n]))
         THEN 1 ELSE 0
    ELSE IF Vn >= g.threshold[b][n] THEN 1 ELSE 0

\* the potential an element is left with: V_reset on fire, within the same step
\* (the alternative carries the supra-threshold potential on)
AfterSpikeCarried(g, Vn, spike) == Vn

AfterSpike(g, Vn, spike) == IF spike = 1 THEN g.cfg.V_reset ELSE Vn

\* ThresholdController: static, or += eta on fire / decay toward V_th, then clamp
ThresholdUpdate(g, thr, spike) ==
    IF ~g.cfg.use_adaptive_threshold THEN thr
    ELSE Clamp(IF spike = 1 THEN thr + g.cfg.eta
               ELSE thr + (g.cfg.dt * (g.cfg.V_th - thr)) \div g.cfg.tau_adapt,
               g.cfg.min_threshold, g.cfg.max_threshold)

TraceUpdate(g, tr, spike) == tr - (g.cfg.dt * tr) \div g.cfg.tau_adapt + spike

\* step(input_current, external_modulation): [err, g (the state left), out]
StepResult(g, x, m) ==
    IF ~ShapeOK(g, x) \/ ~ModOK(g, m)
    THEN [err |-> TRUE, g |-> g, out |-> NoTensor]
    ELSE
      LET B == g.cfg.batch_size
          N == g.cfg.num_neurons
          Vn == [b \in 1..B |-> [n \in 1..N |->
                    Integrate(g, g.V[b][n], EffectiveCurrent(g, x, m, b, n))]]
          spikes == [b \in 1..B |-> [n \in 1..N |-> Fire(g, Vn[b][n], b, n)]]
      IN [err |-> FALSE,
          g |-> [g EXCEPT
                   !.V = [b \in 1..B |-> [n \in 1..N |->
                            AfterSpike(g, Vn[b][n], spikes[b][n])]],
                   !.threshold = [b \in 1..B |-> [n \in 1..N |->
                            ThresholdUpdate(g, g.threshold[b][n], spikes[b][n])]],
                   !.adaptation_trace = [b \in 1..B |-> [n \in 1..N |->
                            TraceUpdate(g, g.adaptation_trace[b][n], spikes[b][n])]],
                   !.rng = RngAt(Stream(g), NoiseDraws(g) + BernoulliDraws(g))],
          out |-> Tensor(<<B, N>>, spikes)]

(* ------------------------------ inputs -------------------------------- *)

\* what a caller may pass as input_current to step(): matching and mismatching shapes
StepInputs(g) ==
    Frames(g.cfg.batch_size, g.cfg.num_neurons, InVals)
      \cup Frames(g.cfg.batch_size + 1, g.cfg.num_neurons, {0})
      \cup Rows(g.cfg.num_neurons, {0})

\* what a caller may pass as external_modulation: none, broadcastable, not broadcastable
Mods(g) ==
    {NoTensor} \cup Rows(g.cfg.num_neurons, {0}) \cup Rows(g.cfg.num_neurons + 1, {0})

\* what a caller may pass to LIFLayer.forward
ForwardInputs(g) ==
    Frames(g.cfg.batch_size, g.cfg.num_neurons, InVals)
      \cup UNION {Sequences3(T, g.cfg.batch_size, g.cfg.num_neurons, InVals) : T \in 0..MaxT}
      \cup Frames(g.cfg.batch_size + 1, g.cfg.num_neurons, {0})
      \cup Sequences3(1, g.cfg.batch_size, g.cfg.num_neurons + 1, {0})
      \cup Sequences3(1, g.cfg.batch_size + 1, g.cfg.num_neurons, {0})
      \cup Rows(g.cfg.num_neurons, {0})

\* what a caller may pass to TorchLIFNeuronGroup.forward
WrapperInputs(g) ==
    Frames(g.cfg.batch_size, g.cfg.num_neurons, InVals)
      \cup Frames(g.cfg.batch_size, g.cfg.num_neurons + 1, {0})
      \cup {NoTensor}

(* ------------------------- bookkeeping records ------------------------ *)

CallRec(op, i, x, r) == [op |-> op, inst |-> i, arg |-> x, err |-> r.err, res |-> r.out]

LastRec(op, i, x, m, pre, r) ==
    [op |-> op, inst |-> i, x |-> x, m |-> m, pre |-> pre, post |-> r.g,
     err |-> r.err, out |-> r.out]

\* no group call made yet by the latest top-level call
NoLast(g) ==
    [op |-> "none", inst |-> 0, x |-> NoTensor, m |-> NoTensor, pre |-> g, post |-> g,
     err |-> FALSE, out |-> NoTensor]

ResetResult(g) == [err |-> FALSE, g |-> ResetState(g), out |-> NoTensor]

Ret(who, status, error, value) ==
    [who |-> who, status |-> status, error |-> error, value |-> value]

(* -------------------------- construction ------------------------------ *)

\* TorchLIFNeuronGroup.__init__ forwards eleven arguments; the rest (batch_size
\* among them) keep their defaults
WrapperCfg(c) ==
    [Defaults EXCEPT !.num_neurons = c.num_neurons, !.V_th = c.V_th,
                     !.V_reset = c.V_reset, !.tau = c.tau, !.dt = c.dt, !.eta = c.eta,
                     !.use_adaptive_threshold = c.use_adaptive_threshold,
                     !.noise_std = c.noise_std, !.stochastic = c.stochastic,
                     !.min_threshold = c.min_threshold,
                     !.max_threshold = c.max_threshold]

\* LIFLayer.__init__ forwards every argument to the group
LayerCfg(c) == c

Init ==
    \E c \in Configs :
      /\ ConfigValid(c)
      /\ grp = [i \in Insts |-> IF i = 1 THEN NewGroup(LayerCfg(c))
                                ELSE NewGroup(WrapperCfg(c))]
      /\ pc = "idle"
      /\ input_data = NoTensor
      /\ external_modulation = NoTensor
      /\ t = 0
      /\ output_spikes = <<>>
      /\ ret = Ret("none", "none", "none", NoTensor)
      /\ calls = <<>>
      /\ entry = NewGroup(LayerCfg(c))
      /\ last = NoLast(NewGroup(LayerCfg(c)))
      /\ ncalls = 0
      /\ twin = [i \in Insts |-> <<>>]

(* ---------------------- direct calls on a group ----------------------- *)

GroupStep(i) ==
    /\ pc = "idle"
    /\ ncalls < MaxCalls
    /\ \E x \in StepInputs(grp[i]), m \in Mods(grp[i]) :
         LET r == StepResult(grp[i], x, m)
         IN /\ grp' = [grp EXCEPT ![i] = r.g]
            /\ last' = LastRec("step", i, x, m, grp[i], r)
            /\ calls' = <<CallRec("step", i, x, r)>>
            /\ input_data' = x
            /\ external_modulation' = m
            /\ ret' = IF r.err THEN Ret("step", "raised", "ShapeMismatch", NoTensor)
                      ELSE Ret("step", "returned", "none", r.out)
    /\ entry' = grp[i]
    /\ t' = 0
    /\ output_spikes' = <<>>
    /\ ncalls' = ncalls + 1
    /\ pc' = "done"
    /\ UNCHANGED twin

GroupReset(i) ==
    /\ pc = "idle"
    /\ ncalls < MaxCalls
    /\ grp' = [grp EXCEPT ![i] = ResetState(grp[i])]
    /\ last' = LastRec("reset", i, NoTensor, NoTensor, grp[i], ResetResult(grp[i]))
    /\ calls' = <<CallRec("reset", i, NoTensor, ResetResult(grp[i]))>>
    /\ input_data' = NoTensor
    /\ external_modulation' = NoTensor
    /\ ret' = Ret("reset_state", "returned", "none", NoTensor)
    /\ entry' = grp[i]
    /\ t' = 0
    /\ output_spikes' = <<>>
    /\ ncalls' = ncalls + 1
    /\ pc' = "done"
    /\ UNCHANGED twin

(* ------------------------ LIFLayer.forward ---------------------------- *)

\* line 103: the slice handed to step() in iteration i (the alternative always
\* hands over the first slice)
LoopInputFirst(x, i) == Sub(x, 0)

LoopInput(x, i) == Sub(x, i)

\* line 104: output_spikes.append(spikes)
Collect(list, spikes) == Append(list, spikes)

\* line 105: what forward returns from the collected list (the alternative sums
\* the spikes over time instead of stacking them)
RECURSIVE SumOver(_, _, _)
SumOver(list, b, n) ==
    IF list = <<>> THEN 0 ELSE list[1].data[b][n] + SumOver(Tail(list), b, n)

ReturnSummed(list) ==
    Tensor(list[1].shape,
           [b \in 1..list[1].shape[1] |-> [n \in 1..list[1].shape[2] |->
               SumOver(list, b, n)]])

ReturnStacked(list) == Stack(list)

\* line 91: reset_state() is the first statement, before any look at the input
LIF_Call ==
    /\ pc = "idle"
    /\ ncalls < MaxCalls
    /\ \E x \in ForwardInputs(grp[1]), m \in Mods(grp[1]) :
         /\ input_data' = x
         /\ external_modulation' = m
    /\ entry' = grp[1]
    /\ grp' = [grp EXCEPT ![1] = ResetState(grp[1])]
    /\ last' = LastRec("reset", 1, NoTensor, NoTensor, grp[1], ResetResult(grp[1]))
    /\ calls' = <<CallRec("reset", 1, NoTensor, ResetResult(grp[1]))>>
    /\ ret' = Ret("LIFLayer", "running", "none", NoTensor)
    /\ t' = 0
    /\ output_spikes' = <<>>
    /\ pc' = "L94"
    /\ ncalls' = ncalls + 1
    /\ UNCHANGED twin

\* lines 94-101 and 106-109: the dispatch on the rank, the asserts, and the 2-D branch
LIF_Dispatch ==
    /\ pc = "L94"
    /\ IF Len(input_data.shape) = 3
       THEN IF /\ input_data.shape[2] = grp[1].cfg.batch_size
               /\ input_data.shape[3] = grp[1].cfg.num_neurons
            THEN /\ pc' = "L102"
                 /\ UNCHANGED <<grp, ret, calls, last>>
            ELSE /\ pc' = "done"
                 /\ ret' = Ret("LIFLayer", "raised", "AssertionError", NoTensor)
                 /\ UNCHANGED <<grp, calls, last>>
       ELSE IF input_data.shape = <<grp[1].cfg.batch_size, grp[1].cfg.num_neurons>>
            THEN LET r == StepResult(grp[1], input_data, external_modulation)
                 IN /\ grp' = [grp EXCEPT ![1] = r.g]
                    /\ last' = LastRec("step", 1, input_data, external_modulation,
                                       grp[1], r)
                    /\ calls' = Append(calls, CallRec("step", 1, input_data, r))
                    /\ ret' = IF r.err
                              THEN Ret("LIFLayer", "raised", "ShapeMismatch", NoTensor)
                              ELSE Ret("LIFLayer", "returned", "none", r.out)
                    /\ pc' = "done"
            ELSE /\ pc' = "done"
                 /\ ret' = Ret("LIFLayer", "raised", "AssertionError", NoTensor)
                 /\ UNCHANGED <<grp, calls, last>>
    /\ UNCHANGED <<input_data, external_modulation, t, output_spikes, entry, ncalls, twin>>

\* lines 102-104: one iteration of the loop over the timesteps
LIF_Loop ==
    /\ pc = "L102"
    /\ t < input_data.shape[1]
    /\ LET x == LoopInput(input_data, t)
           r == StepResult(grp[1], x, external_modulation)
       IN /\ grp' = [grp EXCEPT ![1] = r.g]
          /\ last' = LastRec("step", 1, x, external_modulation, grp[1], r)
          /\ calls' = Append(calls, CallRec("step", 1, x, r))
          /\ IF r.err
             THEN /\ pc' = "done"
                  /\ ret' = Ret("LIFLayer", "raised", "ShapeMismatch", NoTensor)
                  /\ UNCHANGED <<t, output_spikes>>
             ELSE /\ output_spikes' = Collect(output_spikes, r.out)
                  /\ t' = t + 1
                  /\ UNCHANGED <<pc, ret>>
    /\ UNCHANGED <<input_data, external_modulation, entry, ncalls, twin>>

\* line 105: torch.stack of the collected outputs
LIF_Return ==
    /\ pc = "L102"
    /\ t = input_data.shape[1]
    /\ pc' = "done"
    /\ ret' = IF CanStack(output_spikes)
              THEN Ret("LIFLayer", "returned", "none", ReturnStacked(output_spikes))
              ELSE Ret("LIFLayer", "raised", "RuntimeError", NoTensor)
    /\ UNCHANGED <<grp, input_data, external_modulation, t, output_spikes, calls, entry,
                   last, ncalls, twin>>

(* -------------------- TorchLIFNeuronGroup.forward --------------------- *)

\* lines 59-66: the isinstance check and the shape assert; no reset_state()
Wrapper_Call ==
    /\ pc = "idle"
    /\ ncalls < MaxCalls
    /\ \E x \in WrapperInputs(grp[2]) :
         /\ input_data' = x
         /\ IF ~x.is_tensor
            THEN /\ pc' = "done"
                 /\ ret' = Ret("TorchLIFNeuronGroup", "raised", "ValueError", NoTensor)
            ELSE IF x.shape # <<grp[2].cfg.batch_size, grp[2].cfg.num_neurons>>
            THEN /\ pc' = "done"
                 /\ ret' = Ret("TorchLIFNeuronGroup", "raised", "AssertionError", NoTensor)
            ELSE /\ pc' = "W67"
                 /\ ret' = Ret("TorchLIFNeuronGroup", "running", "none", NoTensor)
    /\ external_modulation' = NoTensor
    /\ entry' = grp[2]
    /\ calls' = <<>>
    /\ t' = 0
    /\ output_spikes' = <<>>
    /\ ncalls' = ncalls + 1
    /\ last' = NoLast(grp[2])
    /\ UNCHANGED <<grp, twin>>

\* lines 67-71: the loop over input_current.size(0) rows, then torch.stack
Wrapper_Loop ==
    /\ pc = "W67"
    /\ IF t < input_data.shape[1]
       THEN LET x == Sub(input_data, t)
                r == StepResult(grp[2], x, NoTensor)
            IN /\ grp' = [grp EXCEPT ![2] = r.g]
               /\ last' = LastRec("step", 2, x, NoTensor, grp[2], r)
               /\ calls' = Append(calls, CallRec("step", 2, x, r))
               /\ IF r.err
                  THEN /\ pc' = "done"
                       /\ ret' = Ret("TorchLIFNeuronGroup", "raised", "ShapeMismatch",
                                     NoTensor)
                       /\ UNCHANGED <<t, output_spikes>>
                  ELSE /\ output_spikes' = Append(output_spikes, r.out)
                       /\ t' = t + 1
                       /\ UNCHANGED <<pc, ret>>
       ELSE /\ pc' = "done"
            /\ ret' = Ret("TorchLIFNeuronGroup", "returned", "none", Stack(output_spikes))
            /\ UNCHANGED <<grp, last, calls, t, output_spikes>>
    /\ UNCHANGED <<input_data, external_modulation, entry, ncalls, twin>>

(* ------------------------------ caller -------------------------------- *)

\* the caller takes what the call returned or raised; the records of the finished
\* call are dropped
Finish ==
    /\ pc = "done"
    /\ pc' = "idle"
    /\ input_data' = NoTensor
    /\ external_modulation' = NoTensor
    /\ t' = 0
    /\ output_spikes' = <<>>
    /\ ret' = Ret("none", "none", "none", NoTensor)
    /\ calls' = <<>>
    /\ entry' = NewGroup(grp[1].cfg)
    /\ last' = NoLast(NewGroup(grp[1].cfg))
    /\ UNCHANGED <<grp, ncalls, twin>>

(* --------------------------- specification ---------------------------- *)

Next ==
    \/ GroupStep(1)
    \/ GroupReset(1)
    \/ LIF_Call
    \/ LIF_Dispatch
    \/ LIF_Loop
    \/ LIF_Return
    \/ Wrapper_Call
    \/ Wrapper_Loop
    \/ Finish

Spec == Init /\ [][Next]_vars

(* ------------------------------ twin run ------------------------------ *)
(* Two instances built from the same configuration and seed, both reset,   *)
(* each stepped at its own pace through the same input sequence.           *)

InitTwin ==
    \E c \in Configs :
      /\ ConfigValid(c)
      /\ grp = [i \in Insts |-> ResetState(NewGroup(c))]
      /\ pc = "twin"
      /\ input_data \in Sequences3(MaxT + 1, c.batch_size, c.num_neurons, InVals)
      /\ external_modulation \in {NoTensor} \cup Rows(c.num_neurons, {0})
      /\ t = 0
      /\ output_spikes = <<>>
      /\ ret = Ret("none", "none", "none", NoTensor)
      /\ calls = <<>>
      /\ entry = NewGroup(c)
      /\ last = NoLast(NewGroup(c))
      /\ ncalls = 0
      /\ twin = [i \in Insts |-> <<>>]

TwinStep(i) ==
    /\ pc = "twin"
    /\ Len(twin[i]) < input_data.shape[1]
    /\ LET r == StepResult(grp[i], Sub(input_data, Len(twin[i])), external_modulation)
       IN /\ grp' = [grp EXCEPT ![i] = r.g]
          /\ twin' = [twin EXCEPT ![i] = Append(@, [out |-> r.out, g |-> r.g])]
    /\ UNCHANGED <<pc, input_data, external_modulation, t, output_spikes, ret, calls,
                   entry, last, ncalls>>

NextTwin == \E i \in Insts : TwinStep(i)

SpecTwin == InitTwin /\ [][NextTwin]_vars

(* ------------------------------ properties ---------------------------- *)

BatchOf(i) == grp[i].cfg.batch_size
NeuronsOf(i) == grp[i].cfg.num_neurons

Valid2D(i) == input_data.is_tensor /\ input_data.shape = <<BatchOf(i), NeuronsOf(i)>>

Valid3D(i) ==
    /\ input_data.is_tensor
    /\ Len(input_data.shape) = 3
    /\ input_data.shape[2] = BatchOf(i)
    /\ input_data.shape[3] = NeuronsOf(i)

Cells(g) == (1..g.cfg.batch_size) \X (1..g.cfg.num_neurons)

\* the values held by a 2-D or 3-D tensor
Elements(x) ==
    IF Len(x.shape) = 2
    THEN {x.data[b][n] : <<b, n>> \in (1..x.shape[1]) \X (1..x.shape[2])}
    ELSE {x.data[k][b][n] :
            <<k, b, n>> \in (1..x.shape[1]) \X (1..x.shape[2]) \X (1..x.shape[3])}

\* C1: a LIFLayer.forward call makes reset_state() its first group call and makes no
\* other; every later call is a step() on input_data[0], input_data[1], ... in that
\* order (on the whole input for a 2-D input); with a valid 3-D input of T timesteps
\* and a usable modulation it has made exactly T step() calls when it ends, and the
\* t-th element of what it returns is the result of the t-th step(); with a valid
\* 2-D input it makes one step() and returns its result.
C1_ResetThenStepsInOrder ==
    ret.who = "LIFLayer" =>
      /\ Len(calls) >= 1
      /\ calls[1].op = "reset"
      /\ \A k \in 2..Len(calls) :
           /\ calls[k].op = "step"
           /\ calls[k].arg = IF Valid3D(1)
                             THEN Tensor(<<BatchOf(1), NeuronsOf(1)>>, input_data.data[k - 1])
                             ELSE input_data
      /\ (pc = "L102" => Len(calls) = t + 1)
      /\ (pc = "done" /\ Valid3D(1) /\ ModOK(grp[1], external_modulation) =>
            /\ Len(calls) = input_data.shape[1] + 1
            /\ ret.status = "returned" =>
                 /\ ret.value.shape[1] = input_data.shape[1]
                 /\ \A k \in 1..input_data.shape[1] :
                      ret.value.data[k] = calls[k + 1].res.data)
      /\ (pc = "done" /\ Valid2D(1) =>
            /\ Len(calls) = 2
            /\ ret.value = calls[2].res)
      /\ (pc = "done" /\ ~Valid2D(1) /\ ~Valid3D(1) => Len(calls) = 1)

\* a forward over two different timesteps has returned two different spike frames
C1_Witness ==
    /\ pc = "done"
    /\ ret.who = "LIFLayer"
    /\ ret.status = "returned"
    /\ Valid3D(1)
    /\ input_data.shape[1] = 2
    /\ input_data.data[1] # input_data.data[2]
    /\ ret.value.data[1] # ret.value.data[2]
    /\ Len(calls) = 3

\* C2: a call whose input shape does not match (batch_size, num_neurons) fails and
\* leaves V, threshold and adaptation_trace as they were before the call, for step()
\* and for LIFLayer.forward alike.
C2_ShapeErrorLeavesState ==
    (/\ pc = "done"
     /\ ret.who \in {"LIFLayer", "step"}
     /\ ~Valid2D(1)
     /\ ~(ret.who = "LIFLayer" /\ Valid3D(1))) =>
      /\ ret.status = "raised"
      /\ grp[1].V = entry.V
      /\ grp[1].threshold = entry.threshold
      /\ grp[1].adaptation_trace = entry.adaptation_trace

\* C3: with adaptive thresholding every threshold lies in [min_threshold,
\* max_threshold] in every reachable state, the state after construction included.
C3_ThresholdWithinBounds ==
    \A i \in Insts :
      grp[i].cfg.use_adaptive_threshold =>
        \A <<b, n>> \in Cells(grp[i]) :
          /\ grp[i].cfg.min_threshold <= grp[i].threshold[b][n]
          /\ grp[i].threshold[b][n] <= grp[i].cfg.max_threshold

\* C4: every element of every step() output and of every LIFLayer.forward output is
\* 0 or 1, whatever the firing mode.
C4_SpikesAreBinary ==
    /\ (last.op = "step" /\ ~last.err => Elements(last.out) \subseteq {0, 1})
    /\ (ret.who = "LIFLayer" /\ ret.status = "returned" =>
          Elements(ret.value) \subseteq {0, 1})

\* a stochastic layer has returned a two-timestep sequence holding a 1 in each frame
C4_Witness ==
    /\ pc = "done"
    /\ Mode(grp[1].cfg) = "stochastic"
    /\ ret.who = "LIFLayer"
    /\ ret.status = "returned"
    /\ Len(ret.value.shape) = 3
    /\ ret.value.shape[1] = 2
    /\ ret.value.data[1][1][1] = 1
    /\ ret.value.data[2][1][1] = 1

C6_FiredElementsReset ==
    last.op = "step" /\ ~last.err =>
      \A <<b, n>> \in Cells(last.pre) :
        /\ last.out.data[b][n] = 1 => last.post.V[b][n] = last.pre.cfg.V_reset
        /\ last.out.data[b][n] = 0 =>
             last.post.V[b][n] =
               last.pre.V[b][n]
                 + (last.pre.cfg.dt
                      * (-(last.pre.V[b][n] - last.pre.cfg.V_reset)
                           + EffectiveCurrent(last.pre, last.x, last.m, b, n)))
                     \div last.pre.cfg.tau

\* a step from a charged state fired with a non-zero V_reset
C6_Witness ==
    /\ last.op = "step"
    /\ ~last.err
    /\ last.pre.cfg.V_reset # 0
    /\ last.pre.V[1][1] # 0
    /\ last.out.data[1][1] = 1
    /\ last.post.V[1][1] = last.pre.cfg.V_reset

\* C7: in adaptive mode a neuron that fired has a threshold no lower than before the
\* step, and a neuron that did not fire under zero input has a threshold that moved
\* toward V_th, not away from it and not past it.
C7_ThresholdAdapts ==
    (last.op = "step" /\ ~last.err /\ last.pre.cfg.use_adaptive_threshold) =>
      \A <<b, n>> \in Cells(last.pre) :
        LET before == last.pre.threshold[b][n]
            after == last.post.threshold[b][n]
            base == last.pre.cfg.V_th
        IN /\ last.out.data[b][n] = 1 => after >= before
           /\ (last.out.data[b][n] = 0 /\ last.x.data[b][n] = 0) =>
                /\ before <= base => (before <= after /\ after <= base)
                /\ before >= base => (base <= after /\ after <= before)

\* C8: reset_state() puts V and adaptation_trace back to their initial values,
\* changes no configuration field, and a second reset_state() changes nothing more.
C8_ResetIdempotent ==
    last.op = "reset" =>
      /\ last.post.V = NewGroup(last.pre.cfg).V
      /\ last.post.adaptation_trace = NewGroup(last.pre.cfg).adaptation_trace
      /\ last.post.cfg = last.pre.cfg
      /\ last.post.threshold = last.pre.threshold
      /\ ResetState(last.post) = last.post
      /\ grp[last.inst] = last.post

\* a reset_state() of a group whose V and adaptation_trace were both off their
\* initial values
C8_Witness ==
    /\ last.op = "reset"
    /\ last.pre.V # last.post.V
    /\ last.pre.adaptation_trace # last.post.adaptation_trace

\* C9: LIFLayer.forward returns a tensor of its input's shape for every valid 2-D
\* input and every valid 3-D input, whatever the number of timesteps, and every
\* step() output has the shape of its input.
C9_OutputShapeEqualsInputShape ==
    /\ (last.op = "step" /\ ~last.err => last.out.shape = last.x.shape)
    /\ (/\ pc = "done"
        /\ ret.who = "LIFLayer"
        /\ (Valid2D(1) \/ Valid3D(1))
        /\ ModOK(grp[1], external_modulation)) =>
          /\ ret.status = "returned"
          /\ ret.value.shape = input_data.shape

\* C10: every step() call an adapter makes has an input of shape (batch_size,
\* num_neurons) and comes after a reset_state() of the same forward call, and
\* TorchLIFNeuronGroup.forward returns a (batch_size, num_neurons) spike tensor for
\* an input of that shape.
C10_AdaptersEnforceContract ==
    \A i \in Insts :
      ret.who = (IF i = 1 THEN "LIFLayer" ELSE "TorchLIFNeuronGroup") =>
        /\ \A k \in 1..Len(calls) :
             calls[k].op = "step" =>
               /\ calls[k].arg.shape = <<BatchOf(i), NeuronsOf(i)>>
               /\ \E j \in 1..(k - 1) : calls[j].op = "reset"
        /\ (i = 2 /\ pc = "done" /\ Valid2D(2)) =>
             /\ ret.status = "returned"
             /\ ret.value.shape = <<BatchOf(2), NeuronsOf(2)>>

====
